---------------------------- MODULE Spec2Model ----------------------------
(***************************************************************************)
(* Black/Scholes pricing and the implied-volatility solver of the ivol     *)
(* crate (src/src/black_scholes.rs).                                       *)
(*                                                                         *)
(* Every f64 of the program is modelled as a binary floating-point number  *)
(* with the IEEE-754 value classes (NaN, +/-Infinity, zero, subnormal,     *)
(* normal), round-to-nearest-even, overflow to Infinity and gradual        *)
(* underflow.  The format is narrower than binary64: the significand has   *)
(* Prec = 2*LimbBits bits and the exponent range is given by EBias.        *)
(* Zero carries no sign (the program never inspects the sign of a zero;    *)
(* x/0 takes the sign of x).                                               *)
(***************************************************************************)
EXTENDS Integers, Sequences, FiniteSets, TLC

(* ---------------------------------------------------------------------- *)
(* The floating-point format                                               *)
(* ---------------------------------------------------------------------- *)

\* half of the significand width (binary64: 53 bits in all)
LimbBits == 13
\* the largest binade: finite values are below 2^(EBias+1) (binary64: 1023)
EBias == 40

Prec == 2 * LimbBits
Limb == 2^LimbBits
\* a finite value is m * 2^e with |m| < 2^Prec and ELo <= e <= EHi
ELo == (1 - EBias) - (Prec - 1)
EHi == EBias - (Prec - 1)

NaN == [c |-> "nan", m |-> 0, e |-> 0]
PInf == [c |-> "inf", m |-> 1, e |-> 0]
NInf == [c |-> "inf", m |-> -1, e |-> 0]
Zero == [c |-> "fin", m |-> 0, e |-> 0]
One == [c |-> "fin", m |-> 2^(Prec - 1), e |-> 1 - Prec]
Two == [c |-> "fin", m |-> 2^(Prec - 1), e |-> 2 - Prec]
Half == [c |-> "fin", m |-> 2^(Prec - 1), e |-> -Prec]

Inf(s) == IF s > 0 THEN PInf ELSE NInf

IsNaN(x) == x.c = "nan"
IsInf(x) == x.c = "inf"
IsFinite(x) == x.c = "fin"
Sgn(x) == IF x.m > 0 THEN 1 ELSE IF x.m < 0 THEN -1 ELSE 0
AbsInt(i) == IF i < 0 THEN -i ELSE i
Max(a, b) == IF a >= b THEN a ELSE b
Min(a, b) == IF a <= b THEN a ELSE b

\* f64::is_normal: neither zero, infinite, subnormal nor NaN
is_normal(x) == x.c = "fin" /\ AbsInt(x.m) >= 2^(Prec - 1)

RECURSIVE BitLenFrom(_, _)
BitLenFrom(q, n) == IF n = 31 \/ q < 2^n THEN n ELSE BitLenFrom(q, n + 1)

\* number of significant bits of q, 0 <= q < 2^31
BitLen(q) == IF q >= 2^(Prec - 2) THEN BitLenFrom(q, Prec - 1) ELSE BitLenFrom(q, 0)

\* the float of magnitude M * 2^e, M of at most Prec bits or M = 2^Prec
Pack(s, M, e) ==
  IF M = 0 THEN Zero
  ELSE IF e + (IF M = 2^Prec THEN 1 ELSE 0) > EHi THEN Inf(s)
  ELSE IF M = 2^Prec THEN [c |-> "fin", m |-> s * 2^(Prec - 1), e |-> e + 1]
  ELSE [c |-> "fin", m |-> s * M, e |-> e]

\* q without its sh lowest bits, rounded to nearest, ties to even; 0 < sh < 31
Kept(q, sticky, sh) ==
  (q \div 2^sh)
  + (IF q % 2^sh > 2^(sh - 1)
        \/ (q % 2^sh = 2^(sh - 1) /\ (sticky \/ (q \div 2^sh) % 2 = 1))
     THEN 1 ELSE 0)

\* Round for q of n bits, of which sh are dropped (sh < 0: q is shifted left)
RoundSh(s, q, sticky, e, n, sh) ==
  IF sh > n THEN Zero
  ELSE Pack(s,
            IF sh = n THEN (IF sticky \/ q > 2^(n - 1) THEN 1 ELSE 0)
            ELSE IF sh > 0 THEN Kept(q, sticky, sh)
            ELSE q * 2^(-sh),
            e + sh)

RoundN(s, q, sticky, e, n) == RoundSh(s, q, sticky, e, n, Max(n - Prec, ELo - e))

\* s * (q + f) * 2^e rounded to the format (nearest, ties to even), where
\* 0 <= f < 1 and sticky tells f > 0; q has more than Prec bits when sticky
Round(s, q, sticky, e) == IF q = 0 THEN Zero ELSE RoundN(s, q, sticky, e, BitLen(q))

\* an integer literal, |i| < 2^30
FromInt(i) == Round(IF i < 0 THEN -1 ELSE 1, AbsInt(i), FALSE, 0)

\* <<M, E>> with |x| = M * 2^E and M of exactly Prec bits, for finite nonzero x
NormUp(a, e, up) == <<a * 2^up, e - up>>
Norm(x) == NormUp(AbsInt(x.m), x.e, Prec - BitLen(AbsInt(x.m)))

FNeg(x) == IF x.c = "nan" THEN NaN ELSE [x EXCEPT !.m = -x.m]
FAbs(x) == IF x.c = "nan" THEN NaN ELSE [x EXCEPT !.m = AbsInt(x.m)]

\* Round of the signed sum T + f, 0 <= f < 1
RoundSum(T, sticky, e) ==
  Round(IF T < 0 THEN -1 ELSE 1,
        IF T >= 0 THEN T ELSE (-T) - (IF sticky THEN 1 ELSE 0),
        sticky, e)

\* x + y for finite nonzero x, y whose exponents differ by d = x.e - y.e >= 0:
\* y is added exactly when d <= 1, else below two guard bits of x
AddAligned(x, y, d, den) ==
  IF d <= 1 THEN RoundSum((x.m * (2^d)) + y.m, FALSE, y.e)
  ELSE RoundSum((4 * x.m) + (y.m \div den), y.m % den # 0, x.e - 2)

AddOrdered(x, y) ==
  AddAligned(x, y, x.e - y.e, 2^(Min(Max(x.e - y.e, 2), Prec + 3) - 2))

\* x + y for evaluated x, y, y not NaN
AddV(x, y) ==
  IF x.c = "nan" THEN NaN
  ELSE IF x.c = "inf" THEN (IF y.c = "inf" /\ y.m # x.m THEN NaN ELSE x)
  ELSE IF y.c = "inf" THEN y
  ELSE IF x.m = 0 THEN y
  ELSE IF y.m = 0 THEN x
  ELSE AddOrdered(IF x.e >= y.e THEN x ELSE y, IF x.e >= y.e THEN y ELSE x)

\* f64 addition
FAdd(x, y) == IF y.c = "nan" THEN NaN ELSE AddV(x, y)

\* f64 subtraction
FSub(x, y) == FAdd(x, FNeg(y))

\* the product a * b of two significands as <<a*b \div Limb^2, a*b % Limb^2>>
MulParts(a1b1, mid, lo) ==
  <<a1b1 + (mid \div Limb), ((mid % Limb) * Limb) + (lo % Limb)>>
MulLimbs(a, b) ==
  MulParts((a \div Limb) * (b \div Limb),
           ((a \div Limb) * (b % Limb)) + ((a % Limb) * (b \div Limb))
             + (((a % Limb) * (b % Limb)) \div Limb),
           (a % Limb) * (b % Limb))

\* s * (p[1] * Limb^2 + p[2]) * 2^e rounded, the product of two full significands
MulRound(s, p, e) ==
  Round(s, (4 * p[1]) + (p[2] \div ((Limb * Limb) \div 4)),
        p[2] % ((Limb * Limb) \div 4) # 0, e + (Prec - 2))

MulNorm(s, nx, ny) == MulRound(s, MulLimbs(nx[1], ny[1]), nx[2] + ny[2])

\* x * y for evaluated x, y, x not NaN
MulV(x, y) ==
  IF y.c = "nan" THEN NaN
  ELSE IF x.c = "inf" \/ y.c = "inf"
    THEN (IF x.m = 0 \/ y.m = 0 THEN NaN ELSE Inf(Sgn(x) * Sgn(y)))
  ELSE IF x.m = 0 \/ y.m = 0 THEN Zero
  ELSE MulNorm(Sgn(x) * Sgn(y), Norm(x), Norm(y))

\* f64 multiplication
FMul(x, y) == IF x.c = "nan" THEN NaN ELSE MulV(x, y)

RECURSIVE DivLoop(_, _, _)
\* long division, two quotient bits a round, until the quotient has more than
\* Prec bits: <<quotient, remainder # 0>>
DivLoop(q, r, b) ==
  IF q >= 2^Prec THEN <<q, r # 0>>
  ELSE DivLoop((4 * q) + ((4 * r) \div b), (4 * r) % b, b)

\* a / b for two full significands, to Prec + 1 quotient bits
DivBits(a, b) ==
  DivLoop((2 * (a \div b)) + ((2 * (a % b)) \div b), (2 * (a % b)) % b, b)

DivRound(s, qr, e) == Round(s, qr[1], qr[2], e - (Prec + 1))

DivNorm(s, nx, ny) == DivRound(s, DivBits(nx[1], ny[1]), nx[2] - ny[2])

\* x / y for evaluated x, y, x not NaN
DivV(x, y) ==
  IF y.c = "nan" THEN NaN
  ELSE IF x.c = "inf"
    THEN (IF y.c = "inf" THEN NaN ELSE Inf(x.m * (IF y.m < 0 THEN -1 ELSE 1)))
  ELSE IF y.c = "inf" THEN Zero
  ELSE IF y.m = 0 THEN (IF x.m = 0 THEN NaN ELSE Inf(Sgn(x)))
  ELSE IF x.m = 0 THEN Zero
  ELSE DivNorm(Sgn(x) * Sgn(y), Norm(x), Norm(y))

\* f64 division
FDiv(x, y) == IF x.c = "nan" THEN NaN ELSE DivV(x, y)

\* the sign of a difference
Positive(d) == d.c # "nan" /\ d.m > 0
NonPositive(d) == d.c # "nan" /\ d.m <= 0

\* x > y on f64 (false when either is NaN)
FGt(x, y) == Positive(FSub(x, y))
\* x <= y on f64 (false when either is NaN)
FLe(x, y) == NonPositive(FSub(x, y))

\* a decimal literal n/d of the source, rounded to the format
Dec(n, d) == FDiv(FromInt(n), FromInt(d))

\* x * 2^k, exactly unless it leaves the format's range
Scalb(x, k) ==
  IF x.c # "fin" \/ x.m = 0 THEN x ELSE Round(Sgn(x), AbsInt(x.m), FALSE, x.e + k)

(* ---------------------------------------------------------------------- *)
(* Elementary functions of the standard library                            *)
(* ---------------------------------------------------------------------- *)

\* terms of the exponential series
ExpTerms == 11
\* terms of the logarithm series
LnTerms == 7
\* Newton rounds of the square root
SqrtIters == 6

LN2 == Dec(693147181, 1000000000)
Sqrt2 == Dec(141421356, 100000000)
\* std::f64::consts::PI
PI == Dec(314159265, 100000000)

\* the integer nearest to a finite x, saturated at +/-2^20
RoundToInt(x) ==
  IF x.m = 0 THEN 0
  ELSE IF x.e >= 0 THEN Sgn(x) * 2^20
  ELSE IF -x.e > Prec + 1 THEN 0
  ELSE (x.m + 2^((-x.e) - 1)) \div 2^(-x.e)

RECURSIVE ExpHorner(_, _, _)
\* 1 + r/1 * (1 + r/2 * (... (1 + r/n * acc))): the series of e^r by Horner's
\* rule, acc the part from the (n+1)-th term on
ExpHorner(r, n, acc) ==
  IF n = 0 \/ acc.c = "nan" THEN acc
  ELSE ExpHorner(r, n - 1, FAdd(One, FMul(FDiv(r, FromInt(n)), acc)))

\* e^x = e^r * 2^k for x = k * ln 2 + r
ExpReduced(x, k) ==
  IF k > EBias + 1 THEN PInf
  ELSE IF k < ELo - 1 THEN Zero
  ELSE Scalb(ExpHorner(FSub(x, FMul(FromInt(k), LN2)), ExpTerms, One), k)

\* f64::exp
FExp(x) ==
  IF x.c = "nan" THEN NaN
  ELSE IF x.c = "inf" THEN (IF x.m > 0 THEN PInf ELSE Zero)
  ELSE IF x.m = 0 THEN One
  ELSE ExpReduced(x, RoundToInt(FDiv(x, LN2)))

RECURSIVE LnSeries(_, _, _)
\* sum over i >= 0 of t2^i / (2i+1) by Horner's rule, acc the part from the
\* (n+1)-th term on
LnSeries(t2, n, acc) ==
  IF n < 0 \/ acc.c = "nan" THEN acc
  ELSE LnSeries(t2, n - 1, FAdd(FDiv(One, FromInt(2 * n + 1)), FMul(t2, acc)))

\* k * ln 2 + 2 * atanh(t)
LnAtanh(t, k) == FAdd(FMul(FromInt(k), LN2), FMul(FMul(Two, t), LnSeries(FMul(t, t), LnTerms - 1, Zero)))

\* ln(f * 2^k) for 1/sqrt(2) <= f <= sqrt(2)
LnReduced(f, k) == LnAtanh(FDiv(FSub(f, One), FAdd(f, One)), k)

\* ln(n[1] * 2^n[2]) for a full significand n[1]
LnNorm(n) ==
  LnReduced([c |-> "fin", m |-> n[1], e |-> (IF n[1] > Sqrt2.m THEN 0 ELSE 1) - Prec],
            n[2] + Prec - (IF n[1] > Sqrt2.m THEN 0 ELSE 1))

\* f64::ln
FLn(x) ==
  IF x.c = "nan" THEN NaN
  ELSE IF x.m < 0 THEN NaN
  ELSE IF x.c = "inf" THEN PInf
  ELSE IF x.m = 0 THEN NInf
  ELSE LnNorm(Norm(x))

RECURSIVE SqrtNewton(_, _, _)
SqrtNewton(x, y, i) ==
  IF i = 0 \/ y.c = "nan" THEN y
  ELSE SqrtNewton(x, Scalb(FAdd(y, FDiv(x, y)), -1), i - 1)

\* f64::sqrt
FSqrt(x) ==
  IF x.c = "nan" THEN NaN
  ELSE IF x.m < 0 THEN NaN
  ELSE IF x.c = "inf" THEN PInf
  ELSE IF x.m = 0 THEN Zero
  ELSE SqrtNewton(x, Scalb(One, (x.e + BitLen(x.m)) \div 2), SqrtIters)

\* f64::powi(2)
FSquare(x) == FMul(x, x)

(* ---------------------------------------------------------------------- *)
(* The standard normal distribution (rv::dist::Gaussian::standard())       *)
(* ---------------------------------------------------------------------- *)

ErfP == Dec(3275911, 10000000)
ErfA1 == Dec(254829592, 1000000000)
ErfA2 == Dec(-284496736, 1000000000)
ErfA3 == Dec(142141374, 100000000)
ErfA4 == Dec(-145315203, 100000000)
ErfA5 == Dec(106140543, 100000000)

\* a + t * acc, one step of Horner's rule
ErfStep(t, a, acc) == IF acc.c = "nan" THEN NaN ELSE FAdd(a, FMul(t, acc))

\* t * (a1 + t * (a2 + t * (a3 + t * (a4 + t * a5))))
ErfPoly(t) ==
  FMul(t, ErfStep(t, ErfA1, ErfStep(t, ErfA2, ErfStep(t, ErfA3, ErfStep(t, ErfA4, ErfA5)))))

\* 1 - poly * e^(-z^2)
ErfTail(poly, ex) == IF ex.c = "nan" THEN NaN ELSE FSub(One, FMul(poly, ex))

\* erf(z) for z >= 0
ErfPos(z) ==
  ErfTail(ErfPoly(FDiv(One, FAdd(One, FMul(ErfP, z)))), FExp(FNeg(FMul(z, z))))

\* the error function, odd in z
Erf(z) ==
  IF z.c = "nan" THEN NaN
  ELSE IF z.m = 0 THEN Zero
  ELSE [ErfPos(FAbs(z)) EXCEPT !.m = IF z.m < 0 THEN -@ ELSE @]

\* (1 + erf) / 2
CdfErf(erf) == IF erf.c = "nan" THEN NaN ELSE FMul(Half, FAdd(One, erf))

\* Gaussian::standard().cdf(x)
Cdf(x) == CdfErf(Erf(FDiv(x, Sqrt2)))

\* Gaussian::standard().pdf(x)
Pdf(x) == FDiv(FExp(FNeg(FDiv(FSquare(x), Two))), FSqrt(FMul(Two, PI)))

(* ---------------------------------------------------------------------- *)
(* Black/Scholes                                                           *)
(* ---------------------------------------------------------------------- *)

\* struct BlackScholesParams
BlackScholesParams(price, div_yield, strike, vol, rate, time_to_expiry) ==
  [price |-> price, div_yield |-> div_yield, strike |-> strike, vol |-> vol,
   rate |-> rate, time_to_expiry |-> time_to_expiry]

\* BlackScholesParams{vol: v, ..*bs_params}
WithVol(bs_params, v) == [bs_params EXCEPT !.vol = v]

\* if flag {1.0} else {-1.0}
Sign(flag) == IF flag THEN One ELSE FNeg(One)

d1(bs_params) ==
  FDiv(FAdd(FLn(FDiv(bs_params.price, bs_params.strike)),
            FMul(FAdd(FSub(bs_params.rate, bs_params.div_yield),
                      FDiv(FMul(bs_params.vol, bs_params.vol), Two)),
                 bs_params.time_to_expiry)),
       FMul(bs_params.vol, FSqrt(bs_params.time_to_expiry)))

d2(bs_params) ==
  FSub(d1(bs_params), FMul(bs_params.vol, FSqrt(bs_params.time_to_expiry)))

\* price * exp(-div_yield * time_to_expiry)
DiscountedPrice(bs_params) ==
  FMul(bs_params.price, FExp(FMul(FNeg(bs_params.div_yield), bs_params.time_to_expiry)))

\* strike * exp(-rate * time_to_expiry)
DiscountedStrike(bs_params) ==
  FMul(bs_params.strike, FExp(FMul(FNeg(bs_params.rate), bs_params.time_to_expiry)))

\* sign * price * n.cdf(&d1) * dd - sign * strike * n.cdf(&d2) * d
generic_black_scholes_sum(sign, bs_params, cdf1, cdf2) ==
  IF cdf1.c = "nan" \/ cdf2.c = "nan" THEN NaN
  ELSE FSub(FMul(FMul(FMul(sign, bs_params.price), cdf1),
                 FExp(FMul(FNeg(bs_params.div_yield), bs_params.time_to_expiry))),
            FMul(FMul(FMul(sign, bs_params.strike), cdf2),
                 FExp(FMul(FNeg(bs_params.rate), bs_params.time_to_expiry))))

\* generic_black_scholes from the signed d1 and d2
generic_black_scholes_signed(sign, bs_params, d1_, d2_) ==
  IF d1_.c = "nan" \/ d2_.c = "nan" THEN NaN
  ELSE generic_black_scholes_sum(sign, bs_params, Cdf(d1_), Cdf(d2_))

\* generic_black_scholes without the sign on d2
generic_black_scholes_d2_unsigned(is_call, bs_params) ==
  generic_black_scholes_signed(Sign(is_call), bs_params,
                               FMul(Sign(is_call), d1(bs_params)), d2(bs_params))

generic_black_scholes(is_call, bs_params) ==
  generic_black_scholes_signed(Sign(is_call), bs_params,
                               FMul(Sign(is_call), d1(bs_params)),
                               FMul(Sign(is_call), d2(bs_params)))

call_premium(bs_params) == generic_black_scholes(TRUE, bs_params)

put_premium(bs_params) == generic_black_scholes(FALSE, bs_params)

\* callput_price with the sign of a call price whatever the flag
callput_price_one_sign(is_call_price, market_price_, bs_params_) ==
  FSub(market_price_, FSub(DiscountedPrice(bs_params_), DiscountedStrike(bs_params_)))

callput_price(is_call_price, market_price, bs_params) ==
  FSub(market_price,
       FMul(Sign(is_call_price), FSub(DiscountedPrice(bs_params), DiscountedStrike(bs_params))))

\* dtv_dvol once d1 is computed: the value returned and the lines printed
dtv_dvol_body(bs_params, d1_) ==
  [printed |-> IF ~is_normal(d1_) THEN 1 ELSE 0,
   ret |-> FMul(FMul(DiscountedPrice(bs_params), Pdf(d1_)), FSqrt(bs_params.time_to_expiry))]

dtv_dvol(bs_params) == dtv_dvol_body(bs_params, d1(bs_params))

vega_body(r) == [ret |-> FMul(Dec(1, 100), r.ret), printed |-> r.printed]

vega(bs_params) == vega_body(dtv_dvol(bs_params))

\* approx_vol, one local variable after the other; l holds the locals so far
approx_vol_psdiff(l) == l @@ [psdiff |-> FSub(l.dprice, l.dstrike)]

approx_vol_mdiff(l) == l @@ [mdiff |-> FSub(l.market_price, FDiv(l.psdiff, Two))]

approx_vol_under_root(l) ==
  l @@ [under_root |-> FSub(FSquare(l.mdiff), FDiv(FSquare(l.psdiff), PI))]

\* approx_vol's root without the clamp: the square root is always taken
approx_vol_root_unclamped(l) ==
  l @@ [root |-> FSqrt(l.under_root), sqrt_arg |-> {l.under_root}]

\* sqrt_arg: the arguments sqrt is called with
approx_vol_root(l) ==
  l @@ [root |-> IF Positive(l.under_root) THEN FSqrt(l.under_root) ELSE Zero,
        sqrt_arg |-> IF Positive(l.under_root) THEN {l.under_root} ELSE {}]

approx_vol_sum(l) ==
  l @@ [sum |-> FMul(FDiv(FSqrt(FMul(Two, PI)), FAdd(l.dprice, l.dstrike)),
                     FAdd(l.mdiff, l.root))]

approx_vol_ret(l, bs_params) ==
  l @@ [ret |-> FDiv(l.sum, FSqrt(bs_params.time_to_expiry))]

\* the local variables of approx_vol and the value it returns (ret)
approx_vol_locals(market_price, bs_params) ==
  approx_vol_ret(approx_vol_sum(approx_vol_root(approx_vol_under_root(approx_vol_mdiff(
    approx_vol_psdiff([market_price |-> market_price,
                       dprice |-> DiscountedPrice(bs_params),
                       dstrike |-> DiscountedStrike(bs_params)]))))), bs_params)

approx_vol(market_price, bs_params) == approx_vol_locals(market_price, bs_params).ret

\* Precision for Newton-Raphson method
EPS == Dec(1, 10000000)
\* Maximum number of iterations for Newton-Raphson method
ITER == 60000

\* Result<f64, f64>
Ok(v) == [ok |-> TRUE, v |-> v]
Err(e) == [ok |-> FALSE, v |-> e]

\* call_impl_vol's func pricing the parameter set as it was passed in
call_func_input_vol(v, call_market_price, bs_params) ==
  FSub(call_premium(bs_params), call_market_price)

\* the closure func of call_impl_vol
call_func(v, call_market_price, bs_params) ==
  FSub(call_premium(WithVol(bs_params, v)), call_market_price)

\* put_func pricing the call side
put_func_call_side(v, put_market_price, bs_params) ==
  FSub(call_premium(WithVol(bs_params, v)), put_market_price)

\* the closure func of put_impl_vol
put_func(v, put_market_price, bs_params) ==
  FSub(put_premium(WithVol(bs_params, v)), put_market_price)

\* the closure vol_deriv of both solvers
vol_deriv(v, bs_params) == dtv_dvol(WithVol(bs_params, v))

\* vol_guess of call_impl_vol
call_vol_guess(call_market_price, bs_params) == approx_vol(call_market_price, bs_params)

\* vol_guess of put_impl_vol from the put price itself
put_vol_guess_unconverted(put_market_price, bs_params) ==
  approx_vol(put_market_price, bs_params)

\* vol_guess of put_impl_vol
put_vol_guess(put_market_price, bs_params) ==
  approx_vol(callput_price(FALSE, put_market_price, bs_params), bs_params)

\* process_impl_vol_result handing on find_root's result as it is
process_impl_vol_result_as_is(r, vol_guess_) == r

\* process_impl_vol_result turning a success into a failure
process_impl_vol_result_all_err(r, vol_guess_) ==
  IF is_normal(r.v) THEN Err(r.v) ELSE Err(vol_guess_)

process_impl_vol_result(r, vol_guess_) ==
  IF r.ok THEN Ok(r.v)
  ELSE IF is_normal(r.v) THEN Err(r.v) ELSE Err(vol_guess_)

(* ---------------------------------------------------------------------- *)
(* The state machine: a client of the crate makes one call of an           *)
(* implied-volatility solver, or a few calls of the other functions        *)
(* ---------------------------------------------------------------------- *)

\* calls of the other functions a client makes in a row
MaxCalls == 2

VARIABLES
  side,          \* "call": call_impl_vol runs, "put": put_impl_vol runs, "none": other calls
  market_price,  \* the market price the client holds
  bs_params,     \* the parameter set the client holds
  pc,            \* "start", "Seeded", "Iterating", "Converged", "Exhausted", "Diverged"
  vol_guess,     \* the solver's closed-form seed
  current_x,     \* find_root's current_x
  iters,         \* rounds of find_root's loop completed
  root,          \* <<>> while find_root runs, then <<its result>>
  result,        \* <<>> until the solver returns, then <<its result>>
  stdout,        \* lines written to standard output so far
  trace          \* the other calls made so far: [op, flag, arg, ret, aux]

vars == <<side, market_price, bs_params, pc, vol_guess, current_x, iters, root, result,
          stdout, trace>>

solver_vars == <<pc, vol_guess, current_x, iters, root, result>>

\* find_root's loop is running
Looping == pc \in {"Seeded", "Iterating"} /\ root = <<>>

\* find_root has returned, the solver has not
Returning == pc \in {"Seeded", "Iterating"} /\ root # <<>>

\* call_impl_vol up to its call of find_root
CallSeed ==
  /\ pc = "start" /\ side = "call"
  /\ vol_guess' = call_vol_guess(market_price, bs_params)
  /\ current_x' = vol_guess'
  /\ pc' = "Seeded"
  /\ UNCHANGED <<side, market_price, bs_params, iters, root, result, stdout, trace>>

\* put_impl_vol up to its call of find_root
PutSeed ==
  /\ pc = "start" /\ side = "put"
  /\ vol_guess' = put_vol_guess(market_price, bs_params)
  /\ current_x' = vol_guess'
  /\ pc' = "Seeded"
  /\ UNCHANGED <<side, market_price, bs_params, iters, root, result, stdout, trace>>

\* func(x) of the running solver
func(x) ==
  IF side = "call" THEN call_func(x, market_price, bs_params)
  ELSE put_func(x, market_price, bs_params)

\* the loop of find_root without its iteration cap
StepUncapped ==
  /\ Looping
  /\ \E fd \in {vol_deriv(current_x, bs_params)} :
       /\ \E deviation \in {FDiv(func(current_x), fd.ret)} :
            /\ current_x' = FSub(current_x, deviation)
            /\ root' = IF FLe(FAbs(deviation), EPS) THEN <<Ok(current_x')>> ELSE <<>>
       /\ stdout' = stdout + fd.printed
  /\ iters' = iters + 1
  /\ pc' = "Iterating"
  /\ UNCHANGED <<side, market_price, bs_params, vol_guess, result, trace>>

\* one round of find_root's loop: deviation = f(x) / fd(x), x = x - deviation,
\* Ok(x) once |deviation| <= EPS
Step ==
  /\ Looping /\ iters < ITER
  /\ \E fd \in {vol_deriv(current_x, bs_params)} :
       /\ \E deviation \in {FDiv(func(current_x), fd.ret)} :
            /\ current_x' = FSub(current_x, deviation)
            /\ root' = IF FLe(FAbs(deviation), EPS) THEN <<Ok(current_x')>> ELSE <<>>
       /\ stdout' = stdout + fd.printed
  /\ iters' = iters + 1
  /\ pc' = "Iterating"
  /\ UNCHANGED <<side, market_price, bs_params, vol_guess, result, trace>>

\* find_root's loop ends without an acceptable deviation
Exhaust ==
  /\ Looping /\ iters = ITER
  /\ root' = <<Err(current_x)>>
  /\ UNCHANGED <<side, market_price, bs_params, pc, vol_guess, current_x, iters, result,
                 stdout, trace>>

\* process_impl_vol_result and the solver's return
Return ==
  /\ Returning
  /\ result' = <<process_impl_vol_result(root[1], vol_guess)>>
  /\ pc' = IF root[1].ok THEN "Converged"
           ELSE IF is_normal(root[1].v) THEN "Exhausted" ELSE "Diverged"
  /\ UNCHANGED <<side, market_price, bs_params, vol_guess, current_x, iters, root, stdout,
                 trace>>

\* the prices a call can be given: the client's, or the last value returned
Args == {market_price} \cup (IF trace = <<>> THEN {} ELSE {trace[Len(trace)].ret})

Entry(op, flag, arg, ret, aux) ==
  [op |-> op, flag |-> flag, arg |-> arg, ret |-> ret, aux |-> aux]

CanCall == side = "none" /\ Len(trace) < MaxCalls

CallPremium ==
  /\ CanCall
  /\ trace' = Append(trace, Entry("call_premium", TRUE, Zero, call_premium(bs_params), <<>>))
  /\ UNCHANGED <<side, market_price, bs_params, solver_vars, stdout>>

PutPremium ==
  /\ CanCall
  /\ trace' = Append(trace, Entry("put_premium", FALSE, Zero, put_premium(bs_params), <<>>))
  /\ UNCHANGED <<side, market_price, bs_params, solver_vars, stdout>>

CallputPrice ==
  /\ CanCall
  /\ \E is_call_price \in BOOLEAN, arg \in Args :
       trace' = Append(trace, Entry("callput_price", is_call_price, arg,
                                    callput_price(is_call_price, arg, bs_params), <<>>))
  /\ UNCHANGED <<side, market_price, bs_params, solver_vars, stdout>>

ApproxVol ==
  /\ CanCall
  /\ \E arg \in Args :
       \E l \in {approx_vol_locals(arg, bs_params)} :
         trace' = Append(trace, Entry("approx_vol", TRUE, arg, l.ret, <<l>>))
  /\ UNCHANGED <<side, market_price, bs_params, solver_vars, stdout>>

DtvDvol ==
  /\ CanCall
  /\ \E r \in {dtv_dvol(bs_params)} :
       /\ trace' = Append(trace, Entry("dtv_dvol", TRUE, Zero, r.ret, <<>>))
       /\ stdout' = stdout + r.printed
  /\ UNCHANGED <<side, market_price, bs_params, solver_vars>>

Vega ==
  /\ CanCall
  /\ \E r \in {vega(bs_params)} :
       /\ trace' = Append(trace, Entry("vega", TRUE, Zero, r.ret, <<>>))
       /\ stdout' = stdout + r.printed
  /\ UNCHANGED <<side, market_price, bs_params, solver_vars>>

\* process_impl_vol_result(Ok(arg) or Err(arg), &market_price)
ProcessImplVolResult ==
  /\ CanCall
  /\ \E ok \in BOOLEAN, arg \in Args :
       \E r \in {process_impl_vol_result([ok |-> ok, v |-> arg], market_price)} :
         trace' = Append(trace, Entry("process_impl_vol_result", ok, arg, r.v, <<r>>))
  /\ UNCHANGED <<side, market_price, bs_params, solver_vars, stdout>>

Next ==
  \/ CallSeed \/ PutSeed \/ Step \/ Exhaust \/ Return
  \/ CallPremium \/ PutPremium \/ CallputPrice \/ ApproxVol \/ DtvDvol \/ Vega
  \/ ProcessImplVolResult

(* ---------------------------------------------------------------------- *)
(* The arguments the client calls with                                     *)
(* ---------------------------------------------------------------------- *)

\* test_call_impl_vol
ParamsImplVolTest ==
  BlackScholesParams(FromInt(78), Dec(3, 100), FromInt(70), Dec(3, 10), Dec(4, 100), One)
\* the crate's documentation example
ParamsDocExample ==
  BlackScholesParams(FromInt(4792), Dec(4, 100), FromInt(4400), Dec(23, 100), Dec(25, 1000), Half)
\* test_appox_vol
ParamsApproxTest ==
  BlackScholesParams(FromInt(200), Dec(5, 100), FromInt(180), Dec(34, 100), Dec(8, 100), Half)
\* test_call_premium
ParamsCallTest ==
  BlackScholesParams(FromInt(100), Zero, FromInt(110), Dec(12, 100), Dec(5, 100), Dec(15, 10))
\* a valid parameter set deep in the money
ParamsDeepItm ==
  BlackScholesParams(FromInt(100), Zero, FromInt(10), Dec(1, 10), Zero, Dec(1, 10))

\* a valid parameter set of large prices
ParamsLarge ==
  BlackScholesParams(Scalb(One, 39), Dec(1, 100), Scalb(Dec(11, 10), 39), Dec(3, 10),
                     Dec(2, 100), One)
\* a valid parameter set for which d1 is zero
ParamsD1Zero ==
  BlackScholesParams(FromInt(100), Dec(125, 1000), FromInt(100), Half, Zero, One)

\* the parameter sets of the crate's tests and documentation
TestParams == {ParamsImplVolTest, ParamsDocExample, ParamsApproxTest, ParamsCallTest}

\* price, strike, vol, time_to_expiry > 0
Valid(P) == P.price.m > 0 /\ P.strike.m > 0 /\ P.vol.m > 0 /\ P.time_to_expiry.m > 0

\* the round trips: each solver is given the premium its side computes
RoundTripCalls ==
  {[side |-> "call", market_price |-> call_premium(P), bs_params |-> P] :
     P \in TestParams \cup {ParamsDeepItm}}
  \cup {[side |-> "put", market_price |-> put_premium(P), bs_params |-> P] :
     P \in TestParams \cup {ParamsDeepItm}}

\* adversarial market prices: not a number, and beyond the range of squares
AdversarialCalls ==
  {[side |-> "call", market_price |-> m, bs_params |-> ParamsDeepItm] :
     m \in {NaN, Scalb(One, 30)}}

\* the vol fields a solver is also called with: another volatility, and none
OtherVols == {Dec(9, 10), Zero}

\* the round trips of test_call_impl_vol once more, with parameter sets that differ
\* from the test's in vol only
OtherVolCalls ==
  {[side |-> "call", market_price |-> call_premium(ParamsImplVolTest),
    bs_params |-> WithVol(ParamsImplVolTest, w)] : w \in OtherVols}
  \cup {[side |-> "put", market_price |-> put_premium(ParamsImplVolTest),
    bs_params |-> WithVol(ParamsImplVolTest, w)] : w \in OtherVols}

\* calls of the other functions
PureCalls ==
  {[side |-> "none", market_price |-> m, bs_params |-> P] :
     m \in {Dec(1, 10), Scalb(One, 30), NaN},
     P \in {ParamsImplVolTest, ParamsCallTest, ParamsDeepItm, ParamsLarge, ParamsD1Zero}}

Init ==
  /\ \E c \in RoundTripCalls \cup AdversarialCalls \cup OtherVolCalls \cup PureCalls :
       /\ side = c.side
       /\ market_price = c.market_price
       /\ bs_params = c.bs_params
  /\ pc = "start"
  /\ vol_guess = Zero
  /\ current_x = Zero
  /\ iters = 0
  /\ root = <<>>
  /\ result = <<>>
  /\ stdout = 0
  /\ trace = <<>>

Spec == Init /\ [][Next]_vars

(* ---------------------------------------------------------------------- *)
(* The claims                                                              *)
(* ---------------------------------------------------------------------- *)

Terminal == {"Converged", "Exhausted", "Diverged"}

\* x == y on f64 (false when either is NaN)
FEq(x, y) == x.c # "nan" /\ y.c # "nan" /\ x = y

\* the tolerance 1e-6 of the specification
Tol == Dec(1, 1000000)

\* |x - y| < 1e-6
Within(x, y) == FGt(Tol, FAbs(FSub(x, y)))

\* C1: a solver that ends without converging (iteration cap exhausted or
\* divergence) returns Err with a finite payload, never NaN nor +/-Infinity
C1_FiniteFailurePayload ==
  pc \in {"Exhausted", "Diverged"} => ~result[1].ok /\ IsFinite(result[1].v)

\* the solver was given the premium of its own side
IsRoundTrip ==
  /\ side \in {"call", "put"}
  /\ market_price = generic_black_scholes(side = "call", bs_params)

\* the round trip has succeeded within 1e-6 of the volatility it started from
RoundTripOk == pc = "Converged" /\ result[1].ok /\ Within(result[1].v, bs_params.vol)

\* C2 as stated: for every valid parameter set both round trips succeed with a
\* volatility within 1e-6 of P.vol
C2_RoundTripEveryValid ==
  pc \in Terminal /\ Valid(bs_params) /\ IsRoundTrip => RoundTripOk

\* C2 amended: for the parameter sets of the crate's tests and documentation both
\* round trips succeed with a volatility within 1e-6 of P.vol
C2_RoundTripTestParams ==
  pc \in Terminal /\ bs_params \in TestParams /\ IsRoundTrip => RoundTripOk

\* a put round trip on the documentation example has returned
C2_Witness ==
  pc = "Converged" /\ side = "put" /\ bs_params = ParamsDocExample /\ IsRoundTrip

\* the larger of x and y
FMax(x, y) == IF FGt(y, x) THEN y ELSE x

\* call_premium and put_premium have been called in a row
ParityCase ==
  Len(trace) = 2 /\ trace[1].op = "call_premium" /\ trace[2].op = "put_premium"

\* (call_premium(P) - put_premium(P)) - (price*exp(-div_yield*T) - strike*exp(-rate*T))
ParityError ==
  FSub(FSub(trace[1].ret, trace[2].ret),
       FSub(DiscountedPrice(bs_params), DiscountedStrike(bs_params)))

\* max(1, price*exp(-div_yield*T) + strike*exp(-rate*T))
ParityScale == FMax(One, FAdd(DiscountedPrice(bs_params), DiscountedStrike(bs_params)))

\* C3 as stated: for every valid parameter set call_premium(P) - put_premium(P)
\* is within 1e-6 of price*exp(-div_yield*T) - strike*exp(-rate*T)
C3_ParityAbsolute ==
  ParityCase /\ Valid(bs_params) => FGt(Tol, FAbs(ParityError))

\* C3 amended: for every valid parameter set with finite discounted prices the two
\* sides of the parity differ by at most 1e-6 * max(1, the sum of the discounted prices)
C3_ParityRelative ==
  ParityCase /\ Valid(bs_params) /\ IsFinite(ParityScale)
    => FLe(FAbs(ParityError), FMul(Tol, ParityScale))

\* the parity of a large parameter set is off by more than 1e-6
C3_Witness ==
  ParityCase /\ bs_params = ParamsLarge /\ FGt(FAbs(ParityError), Tol)

\* the moves of a solver call between the states of the specification
SolverMoves ==
  {<<"start", "Seeded">>, <<"Seeded", "Iterating">>} \cup {<<"Iterating", t>> : t \in Terminal}

\* a step of a solver call moves as the specification's state machine does, has a
\* result exactly in the three terminal states, Ok exactly in Converged, and then
\* the very value find_root returned as converged
SolverMoveOk ==
  side \in {"call", "put"} =>
    /\ pc' # pc => <<pc, pc'>> \in SolverMoves
    /\ pc' \notin Terminal => result' = <<>>
    /\ pc' \in Terminal =>
         /\ Len(result') = 1 /\ Len(root') = 1
         /\ result'[1].ok <=> pc' = "Converged"
         /\ pc' = "Converged" => root'[1].ok /\ result'[1] = root'[1]

Rank ==
  IF pc \in Terminal THEN 0
  ELSE IF root # <<>> THEN 1
  ELSE IF pc = "start" THEN ITER + 3
  ELSE (ITER - iters) + 2

\* a solver call has taken at most ITER steps and, unless it has returned, is where
\* one of its steps can be taken: the seeding, a round or the end of find_root's
\* loop, or the return
SolverCanGoOn ==
  side \in {"call", "put"} =>
    /\ iters <= ITER
    /\ pc \notin Terminal =>
         \/ pc = "start"
         \/ Looping /\ (iters < ITER \/ iters = ITER)
         \/ Returning

\* a step of a solver call brings its return nearer
SolverProgress == side \in {"call", "put"} => (Rank' < Rank)

\* C5: a solver call takes at most ITER = 60000 Newton-Raphson steps, can always go
\* on until it has returned, and every step of it brings the return nearer, whatever
\* func and vol_deriv evaluate to
C5_Terminates == []SolverCanGoOn /\ [][SolverProgress]_vars

\* a solver call on a market price that is not a number has returned after ITER steps
C5_Witness ==
  pc \in Terminal /\ iters = ITER /\ IsNaN(market_price) /\ IsNaN(current_x)

\* Newton-Raphson rounds of the call-side solve a put solve is compared with
MaxTwin == 8

\* the call price callput_price(false, m, P) of the put price m
TwinPrice == callput_price(FALSE, market_price, bs_params)

\* the seed of call_impl_vol(callput_price(false, m, P), P)
TwinSeed == call_vol_guess(TwinPrice, bs_params)

\* func(x) / vol_deriv(x) of call_impl_vol(callput_price(false, m, P), P)
TwinDeviation(x) ==
  FDiv(call_func(x, TwinPrice, bs_params), vol_deriv(x, bs_params).ret)

\* its iterate after the one x
TwinStep(x) == IF x.c = "nan" THEN NaN ELSE FSub(x, TwinDeviation(x))

RECURSIVE TwinIterate(_)
\* its n-th iterate
TwinIterate(n) == IF n = 0 THEN TwinSeed ELSE TwinStep(TwinIterate(n - 1))

RECURSIVE TwinRun(_, _)
\* the result of its find_root from x, as far as n rounds decide it: <<>> if they do not
TwinRunOn(x, deviation, n) ==
  IF deviation.c = "nan" THEN <<>>
  ELSE IF FLe(FAbs(deviation), EPS) THEN <<Ok(FSub(x, deviation))>>
  ELSE IF n = 1 THEN <<>>
  ELSE TwinRun(FSub(x, deviation), n - 1)
TwinRun(x, n) == TwinRunOn(x, TwinDeviation(x), n)

\* a put solve within the rounds compared
PutCase == side = "put" /\ pc # "start" /\ iters <= MaxTwin

\* C6 as stated: put_impl_vol(m, P) has the seed, the Newton iterates and the result
\* of call_impl_vol(callput_price(false, m, P), P)
C6_SameIterates ==
  PutCase =>
    /\ vol_guess = TwinSeed
    /\ current_x = TwinIterate(iters)
    /\ pc = "Converged" => <<result[1]>> = TwinRun(TwinSeed, MaxTwin)

\* C6 amended: put_impl_vol(m, P) has the seed of the call-side solve; on the round
\* trips of the test parameter sets its iterates are within 1e-6 of the call-side
\* ones, and so is its result when both solves converge
C6_SameSeedNearIterates ==
  PutCase =>
    /\ vol_guess = TwinSeed
    /\ bs_params \in TestParams /\ IsRoundTrip =>
         /\ Within(current_x, TwinIterate(iters))
         /\ pc = "Converged" /\ TwinRun(TwinSeed, MaxTwin) # <<>> =>
              Within(result[1].v, TwinRun(TwinSeed, MaxTwin)[1].v)

\* a put round trip of a test parameter set has converged on another value than the
\* call-side solve
C6_Witness ==
  /\ PutCase /\ pc = "Converged" /\ bs_params = ParamsDocExample /\ IsRoundTrip
  /\ TwinRun(TwinSeed, MaxTwin) # <<>>
  /\ <<result[1]>> # TwinRun(TwinSeed, MaxTwin)

\* a step leaves the parameter set and the market price it is given as they are
\* and writes nothing to standard output
PureStep == bs_params' = bs_params /\ market_price' = market_price /\ stdout' = stdout

\* C7: every core operation (the premiums, vega, dtv_dvol, the parity converter, both
\* solvers) is pure: it never changes the parameter set it is given and performs no
\* I/O
C7_PureNoIO == [][PureStep]_vars

\* the closed-form seed of the running solver call
SeedOfCall ==
  IF side = "call" THEN call_vol_guess(market_price, bs_params)
  ELSE put_vol_guess(market_price, bs_params)

\* the failure the solver returns for find_root's failure payload e
FailureFor(e, guess) == IF is_normal(e) THEN Err(e) ELSE Err(guess)

\* a solver call: the Newton-Raphson iteration is seeded with the closed-form
\* approximation, and a failure of find_root is returned as FailureFor tells, with
\* that seed as vol_guess
SolverFailurePayload ==
  /\ pc = "Seeded" /\ iters = 0 => current_x = SeedOfCall
  /\ pc \in {"Exhausted", "Diverged"} =>
       ~root[1].ok /\ result[1] = FailureFor(root[1].v, SeedOfCall)

\* the calls of process_impl_vol_result with a failure return as FailureFor tells
DirectFailurePayload ==
  \A i \in 1..Len(trace) :
    trace[i].op = "process_impl_vol_result" /\ ~trace[i].flag =>
      trace[i].aux[1] = FailureFor(trace[i].arg, market_price)

\* C8: when the root-finder fails with payload e, the solver returns Err(e) if e is a
\* normal number and else Err(vol_guess), vol_guess being the closed-form
\* approximation that seeded the Newton-Raphson iteration of that call
C8_FailurePayload == SolverFailurePayload /\ DirectFailurePayload

\* a solver call whose root-finder failed with a payload that is not a normal number
\* has returned its seed
C8_Witness ==
  /\ pc = "Diverged" /\ ~is_normal(root[1].v)
  /\ IsFinite(SeedOfCall) /\ result[1] = Err(SeedOfCall)

\* the i-th call made is callput_price(flag, arg, P)
IsConversion(i, flag) ==
  Len(trace) >= i /\ trace[i].op = "callput_price" /\ trace[i].flag = flag

\* the second call made is callput_price(flag, the value the first call returned, P)
ConvertsFirst(flag) == IsConversion(2, flag) /\ trace[2].arg = trace[1].ret

\* every call of callput_price has returned m - sign * (dprice - dstrike)
ConversionFormula ==
  \A i \in 1..Len(trace) :
    trace[i].op = "callput_price" =>
      trace[i].ret = FSub(trace[i].arg,
                          FMul(IF trace[i].flag THEN One ELSE FNeg(One),
                               FSub(DiscountedPrice(bs_params), DiscountedStrike(bs_params))))

\* max(1, |m| + price*exp(-div_yield*T) + strike*exp(-rate*T))
ConversionScale(m) ==
  FMax(One, FAdd(FAbs(m), FAdd(DiscountedPrice(bs_params), DiscountedStrike(bs_params))))

\* |x - y| <= 1e-6 * max(1, |m| + the discounted prices), when m and that are finite
NearAt(x, y, m) ==
  IsFinite(m) /\ IsFinite(ConversionScale(m)) =>
    FLe(FAbs(FSub(x, y)), FMul(Tol, ConversionScale(m)))

\* C9 as stated: callput_price returns m - sign * (dprice - dstrike), and thereby
\* callput_price(true, call_premium(P), P) = put_premium(P),
\* callput_price(false, put_premium(P), P) = call_premium(P) and
\* callput_price(false, callput_price(true, m, P), P) = m
C9_ExactOtherSide ==
  /\ ConversionFormula
  /\ trace # <<>> /\ trace[1].op = "call_premium" /\ ConvertsFirst(TRUE) =>
       trace[2].ret = put_premium(bs_params)
  /\ trace # <<>> /\ trace[1].op = "put_premium" /\ ConvertsFirst(FALSE) =>
       trace[2].ret = call_premium(bs_params)
  /\ IsConversion(1, TRUE) /\ ConvertsFirst(FALSE) => trace[2].ret = trace[1].arg

\* C9 amended: callput_price returns m - sign * (dprice - dstrike) as computed in
\* floating point, and for a finite price m converted the three equalities hold to
\* within 1e-6 * max(1, |m| + dprice + dstrike) when that is finite
C9_OtherSideWithinRounding ==
  /\ ConversionFormula
  /\ trace # <<>> /\ trace[1].op = "call_premium" /\ ConvertsFirst(TRUE) =>
       NearAt(trace[2].ret, put_premium(bs_params), trace[2].arg)
  /\ trace # <<>> /\ trace[1].op = "put_premium" /\ ConvertsFirst(FALSE) =>
       NearAt(trace[2].ret, call_premium(bs_params), trace[2].arg)
  /\ IsConversion(1, TRUE) /\ ConvertsFirst(FALSE) =>
       NearAt(trace[2].ret, trace[1].arg, trace[1].arg)

\* a finite price converted to the other side and back is not the price it was
C9_Witness ==
  /\ IsConversion(1, TRUE) /\ ConvertsFirst(FALSE)
  /\ IsFinite(trace[1].arg) /\ IsFinite(trace[2].ret) /\ trace[2].ret # trace[1].arg

\* C10
\* the calls of approx_vol made so far
GuessCalls == {i \in 1..Len(trace) : trace[i].op = "approx_vol"}

\* the local variables of the i-th call
GuessLocals(i) == trace[i].aux[1]

\* the term under the square root is clamped: unless it is strictly positive
\* the root term is 0 and sqrt is not called
Clamped(l) == ~Positive(l.under_root) => l.root = Zero /\ l.sqrt_arg = {}

\* sqrt is only called with strictly positive numbers
NoNegativeRoot(l) == \A a \in l.sqrt_arg : Positive(a)

\* valid parameters in the sense of the claim
ValidForGuess(P) == P.price.m > 0 /\ P.strike.m > 0 /\ P.time_to_expiry.m > 0

\* no operation of the call yielded an infinity (by overflow, or by dividing
\* by a sum of discounted prices that underflowed to zero)
NoOverflow(l) ==
  \A x \in {l.dprice, l.dstrike, l.psdiff, l.mdiff, FSquare(l.mdiff), FSquare(l.psdiff),
            l.under_root, l.root, FAdd(l.dprice, l.dstrike),
            FDiv(FSqrt(FMul(Two, PI)), FAdd(l.dprice, l.dstrike)), l.sum, l.ret} :
    ~IsInf(x)

SeedFor(P) ==
  IF side = "call" THEN call_vol_guess(market_price, P)
  ELSE put_vol_guess(market_price, P)

\* func(x) / vol_deriv(x) of the running solver call, had it been given P
DeviationFor(x, P) ==
  FDiv(IF side = "call" THEN call_func(x, market_price, P)
       ELSE put_func(x, market_price, P),
       vol_deriv(x, P).ret)

\* the input parameter set with the trial value x as its vol, and nothing else changed
TrialParams(x) ==
  BlackScholesParams(bs_params.price, bs_params.div_yield, bs_params.strike, x,
                     bs_params.rate, bs_params.time_to_expiry)

\* f(x) / f'(x) with the premium of the solver's side and dtv_dvol, both on TrialParams(x)
TrialDeviation(x) ==
  FDiv(FSub(generic_black_scholes(side = "call", TrialParams(x)), market_price),
       dtv_dvol(TrialParams(x)).ret)

\* the solver's seeding step is the one of a call with any other vol
SameSeed ==
  pc = "start" /\ pc' = "Seeded" =>
    \A w \in OtherVols \ {bs_params.vol} :
      vol_guess' = SeedFor(WithVol(bs_params, w)) /\ current_x' = vol_guess'

\* a round of find_root evaluates f and f' on TrialParams(current_x) and is the
\* round of a call with any other vol
SameRound ==
  Looping /\ iters' = iters + 1 =>
    /\ current_x' = FSub(current_x, TrialDeviation(current_x))
    /\ \A w \in OtherVols \ {bs_params.vol} :
         \E deviation \in {DeviationFor(current_x, WithVol(bs_params, w))} :
           /\ current_x' = FSub(current_x, deviation)
           /\ root' = IF FLe(FAbs(deviation), EPS) THEN <<Ok(current_x')>> ELSE <<>>

\* the end of find_root and the solver's return read the solver's own variables only
SameReturn ==
  /\ Looping /\ root' # <<>> /\ iters' = iters => root' = <<Err(current_x)>>
  /\ Returning => result' = <<process_impl_vol_result(root[1], vol_guess)>>

VolBlindMove == SameSeed /\ SameRound /\ SameReturn

\* C11: the result of call_impl_vol and of put_impl_vol does not depend on the vol
\* field of the parameter set: each step of a solver call (its seeding, every round
\* of find_root, its return) is the step a call with the same market price and a
\* parameter set differing only in vol takes from the same solver state, f and f'
\* being evaluated on the input parameter set with vol = the trial value; so two
\* such calls have the same seed, the same iterates and the same result
C11_VolBlind == [][VolBlindMove]_vars

\* a solver call for the premium of test_call_impl_vol with another vol field than
\* the test's has converged, after several rounds, on the test's volatility
C11_Witness ==
  /\ pc = "Converged" /\ iters >= 2 /\ result[1].ok
  /\ bs_params.vol \in OtherVols /\ bs_params = WithVol(ParamsImplVolTest, bs_params.vol)
  /\ ~Within(result[1].v, bs_params.vol) /\ Within(result[1].v, ParamsImplVolTest.vol)

=============================================================================
